---------------------------- MODULE Spec2Model ----------------------------
(***************************************************************************)
(* Session refresh of anyrouter-check-in: refresh_session.py (the per       *)
(* account login automation and the batch orchestration) and               *)
(* utils/github_api.py (the publication of the refreshed account list as   *)
(* an encrypted GitHub environment secret).                                *)
(*                                                                         *)
(* One run of run_main() is modelled.  pc is the position of the run; the  *)
(* names of the positions are the source lines they stand at.  Everything  *)
(* the run cannot control (the credentials loaded, the page served, the    *)
(* cookies, whether a browser call raises, the HTTP statuses) is chosen    *)
(* nondeterministically by the action that meets it.                       *)
(***************************************************************************)
EXTENDS Integers, Sequences, FiniteSets, TLC

\* ------------------------------------------------------------- bounds
\* The longest credential list load_credentials_config() returns here.
MaxCreds == 2
\* The most cookies the browser context holds at extraction.
MaxCookies == 2
\* The most selectors of one role a page answers to with anything but "no
\* such element".
MaxMatches == 2

\* Calls of update_anyrouter_accounts one process makes in a row.
MaxPublishCalls == 2

\* ---------------------------------------------------------- constants
\* The statuses update_environment_secret accepts for the PUT.
HTTP_CREATED == 201
HTTP_NO_CONTENT == 204
\* The status get_environment_public_key accepts for the GET.
HTTP_OK == 200

VARIABLES
    pc,               \* position of the run
    credentials,      \* refresh_all_sessions: credentials
    i,                \* refresh_all_sessions: loop index (0-based, as in the code)
    new_accounts,     \* refresh_all_sessions: new_accounts
    failed_accounts,  \* refresh_all_sessions: failed_accounts
    success_count,    \* refresh_all_sessions: success_count
    new_session,      \* refresh_all_sessions: new_session
    sleeps,           \* indices after whose processing asyncio.sleep(2) ran
    page,             \* auto_login_and_get_session: the page, as last probed
    session_cookie,   \* auto_login_and_get_session: session_cookie
    openContexts,     \* browser contexts launched and not closed (by index)
    driverRunning,    \* inside `async with async_playwright()`
    loginResult,      \* per credential: how its auto_login call ended
    actions,          \* auto_login_and_get_session: what was done to the page
    notifications,    \* calls of notify.push_message, in order
    env,              \* the process environment the publisher reads
    accounts_json,    \* refresh_all_sessions: accounts_json
    pubCalls,         \* calls of update_anyrouter_accounts
    getCalls,         \* GET requests sent to the secret store
    encCalls,         \* calls of _encrypt_secret
    putCalls,         \* PUT requests sent to the secret store
    key_info,         \* update_environment_secret: key_info
    encrypted_value,  \* update_environment_secret: encrypted_value
    payload,          \* update_environment_secret: payload of the PUT sent
    getStatus,        \* how the GET ended
    putStatus,        \* how the PUT ended
    pubResult,        \* value update_anyrouter_accounts returned
    remoteSecret,     \* the value the secret store holds
    remoteKey,        \* the public key the secret store serves
    thisCall,         \* what the publish call in progress has done
    success,          \* run_main: success
    outcome,          \* how the run ended
    exitCode          \* argument of sys.exit

vars ==
    << pc, credentials, i, new_accounts, failed_accounts, success_count,
       new_session, sleeps, page, session_cookie, openContexts,
       driverRunning, loginResult, actions, notifications, env,
       accounts_json, pubCalls, getCalls, encCalls, putCalls, key_info,
       encrypted_value, payload, getStatus, putStatus, pubResult,
       remoteSecret, remoteKey, thisCall, success, outcome, exitCode >>

loginVars == << page, session_cookie, actions >>

browserVars == << openContexts, driverRunning, loginResult >>

batchVars ==
    << credentials, i, new_accounts, failed_accounts, success_count,
       new_session, sleeps >>

pubVars ==
    << accounts_json, pubCalls, getCalls, encCalls, putCalls, key_info,
       encrypted_value, payload, getStatus, putStatus, pubResult,
       remoteSecret, remoteKey, thisCall >>

endVars == << success, outcome, exitCode >>

\* ------------------------------------------------------------- values
None == "None"

\* The providers AppConfig.load_from_env() registers, and one it does not.
RegisteredProviders == {"anyrouter"}
ProviderIds == RegisteredProviders \cup {"unlisted"}

\* Credential n (1-based) of a loaded list: its own username and password.
Credential(n, provider) ==
    [ provider |-> provider,
      username |-> "user" \o ToString(n),
      password |-> "pass" \o ToString(n) ]

CredentialLists ==
    UNION { { [ n \in 1..len |-> Credential(n, f[n]) ] :
                f \in [1..len -> ProviderIds] } : len \in 0..MaxCreds }

\* Cookie values a login can leave behind; "" is an empty cookie value.
SessionValues == {"sA", "sB"}
Cookies ==
    [ name : {"session", "other"}, value : SessionValues \cup {""} ]
CookieJars == UNION { [1..len -> Cookies] : len \in 0..MaxCookies }

\* lines 75-102: the selectors of each role, in the order they are tried
\* (quotes dropped, the Chinese texts transliterated).
username_selectors ==
    << "input[type=email]", "input[name=username]", "input[name=email]",
       "input[placeholder*=youxiang]", "input[placeholder*=email]",
       "input[placeholder*=yonghuming]", "input[id*=username]",
       "input[id*=email]" >>

password_selectors ==
    << "input[type=password]", "input[name=password]",
       "input[placeholder*=mima]", "input[placeholder*=password]",
       "input[id*=password]" >>

submit_selectors ==
    << "button[type=submit]", "button:has-text(denglu)",
       "button:has-text(Login)", "button:has-text(Sign in)",
       "input[type=submit]", ".login-btn", ".submit-btn" >>

\* What a page answers when one selector is tried (lines 107-115):
\*   "absent"        query_selector returns None
\*   "query_raises"  query_selector raises
\*   "action_raises" query_selector returns an element, fill/click raises
\*   "ok"            query_selector returns an element, fill/click returns
\* A call that raises has not acted on the page.
Answers == {"absent", "query_raises", "action_raises", "ok"}

\* The page as the login sees it: the role being scanned, the answers the
\* page gave to the selectors of that role tried so far, in order, and the
\* index of the selector that was used (0: none was).
NoPage == [ role |-> "none", answers |-> << >>, used |-> 0 ]

\* The environment variables the publisher reads: whether GH_PAT is set, and
\* how the repository is named ("combined": GITHUB_REPOSITORY=owner/repo,
\* "separate": REPO_OWNER and REPO_NAME, "none": neither).
Environments == [ GH_PAT : BOOLEAN, repo : {"combined", "separate", "none"} ]

\* The public keys the secret store serves.  "notakey" is a key string
\* PublicKey() rejects.
RemoteKeys ==
    { [ key_id |-> "id1", key |-> "k1" ],
      [ key_id |-> "id2", key |-> "k2" ],
      [ key_id |-> "id3", key |-> "notakey" ] }
ValidKeys == {"k1", "k2"}
NoKeyInfo == [ key_id |-> "", key |-> "" ]
\* The ephemeral key pairs a sealed box draws from.
Ephemerals == {"e1", "e2"}
\* A sealed box: the recipient key, the ephemeral key pair and the message.
NoBox == [ box |-> "", eph |-> "", msg |-> << >> ]
\* The value the secret store holds before the run.
OldSecret == [ box |-> "k0", eph |-> "e0", msg |-> << "old" >> ]
NoPayload == [ encrypted_value |-> NoBox, key_id |-> "" ]
\* The requests one call of update_anyrouter_accounts has sent so far, the
\* key its GET was answered with, and the key_id the PUT before it carried.
NewCall(prev) ==
    [ gets |-> 0, encs |-> 0, puts |-> 0, served |-> NoKeyInfo,
      prev |-> prev ]

\* A response: raised is a transport exception (status then means nothing).
NoResponse == [ raised |-> FALSE, status |-> 0 ]
\* Statuses the secret store answers with.
GetStatuses == {HTTP_OK, HTTP_CREATED, 404, 500}
PutStatuses == {HTTP_OK, HTTP_CREATED, HTTP_NO_CONTENT, 422, 500}

\* ------------------------------------------------- out-of-src helpers
\* CredentialConfig.get_display_name(index): the label of an account.
get_display_name(credential, index) == "Account " \o ToString(index + 1)

\* AppConfig.get_provider(provider): None for an unregistered provider.
get_provider(provider) ==
    IF provider \in RegisteredProviders THEN provider ELSE None

\* CredentialConfig.to_account_config(session).to_dict()
to_account_dict(credential, session) ==
    [ provider |-> credential.provider,
      username |-> credential.username,
      password |-> credential.password,
      session  |-> session ]

\* --------------------------------------------------------------- Init
Init ==
    /\ pc = "start"
    /\ credentials = << >>
    /\ i = 0
    /\ new_accounts = << >>
    /\ failed_accounts = << >>
    /\ success_count = 0
    /\ new_session = None
    /\ sleeps = {}
    /\ page = NoPage
    /\ session_cookie = None
    /\ openContexts = {}
    /\ driverRunning = FALSE
    /\ loginResult = << >>
    /\ actions = << >>
    /\ notifications = << >>
    /\ env \in Environments
    /\ accounts_json = << >>
    /\ pubCalls = 0
    /\ getCalls = 0
    /\ encCalls = 0
    /\ putCalls = 0
    /\ key_info = NoKeyInfo
    /\ encrypted_value = NoBox
    /\ payload = NoPayload
    /\ getStatus = NoResponse
    /\ putStatus = NoResponse
    /\ pubResult = FALSE
    /\ remoteSecret = OldSecret
    /\ remoteKey = [ key_id |-> "id1", key |-> "k1" ]
    /\ thisCall = NewCall("")
    /\ success = FALSE
    /\ outcome = "running"
    /\ exitCode = -1

\* ------------------------------------------- auto_login_and_get_session
\* A truth test that only tells None apart, taking "" for a session.
Truthy_NotNone(v) == v # None

\* Python's truth value of a `str | None`.
Truthy(v) == v # None /\ v # ""

\* `return v`: leaves the `with` blocks of lines 45-46, which stops the driver.
LoginReturn(v) ==
    /\ new_session' = v
    /\ loginResult' = [loginResult EXCEPT ![i + 1] = v]
    /\ driverRunning' = FALSE
    /\ pc' = "result"

\* An exception leaves auto_login_and_get_session (and the `with` blocks) and,
\* nothing in refresh_all_sessions catching it, reaches run_main.
LoginRaise ==
    /\ loginResult' = [loginResult EXCEPT ![i + 1] = "raised"]
    /\ driverRunning' = FALSE
    /\ new_session' = new_session
    /\ pc' = "raised"

\* `await context.close()`: it closes the context, or raises; a close that
\* raises may or may not have closed it.
ContextCloseOk == openContexts' = openContexts \ {i}

ContextCloseRaises ==
    \E closed \in BOOLEAN :
        openContexts' = IF closed THEN openContexts \ {i} ELSE openContexts

\* Leaving `async with async_playwright()` (line 45) with a context that was
\* never closed: the code does not close it, and whether the stopping driver
\* takes it down is not the code's doing; both are possible.
DriverStopsWithContext ==
    \E torn \in BOOLEAN :
        openContexts' = IF torn THEN openContexts \ {i} ELSE openContexts

\* line 45: async with async_playwright() as p
EnterPlaywright ==
    /\ pc = "login_playwright"
    /\ \/ /\ driverRunning' = TRUE
          /\ pc' = "login_launch"
          /\ UNCHANGED << new_session, loginResult >>
       \/ LoginRaise
    /\ UNCHANGED << credentials, i, new_accounts, failed_accounts,
                    success_count, sleeps, openContexts >>
    /\ UNCHANGED << loginVars, notifications, env, pubVars, endVars >>

\* lines 46-59: context = await p.chromium.launch_persistent_context(...)
LaunchContext ==
    /\ pc = "login_launch"
    /\ \/ /\ openContexts' = openContexts \cup {i}
          /\ pc' = "login_new_page"
          /\ UNCHANGED << new_session, loginResult, driverRunning >>
       \/ /\ LoginRaise
          /\ UNCHANGED openContexts
    /\ UNCHANGED << credentials, i, new_accounts, failed_accounts,
                    success_count, sleeps >>
    /\ UNCHANGED << loginVars, notifications, env, pubVars, endVars >>

\* line 61: page = await context.new_page(), before the try of line 63
NewPage ==
    /\ pc = "login_new_page"
    /\ \/ /\ pc' = "login_goto"
          /\ UNCHANGED << new_session, loginResult, driverRunning,
                          openContexts >>
       \/ /\ LoginRaise
          /\ DriverStopsWithContext
    /\ UNCHANGED << credentials, i, new_accounts, failed_accounts,
                    success_count, sleeps >>
    /\ UNCHANGED << loginVars, notifications, env, pubVars, endVars >>

\* lines 63-66: await page.goto(login_url, wait_until='networkidle')
Goto ==
    /\ pc = "login_goto"
    /\ \/ pc' = "login_ready"
       \/ pc' = "login_except"
    /\ UNCHANGED << batchVars, browserVars, loginVars >>
    /\ UNCHANGED << notifications, env, pubVars, endVars >>

\* lines 68-72: wait_for_function, and wait_for_timeout when it raises
WaitReady ==
    /\ pc = "login_ready"
    /\ \/ pc' = "login_username"
       \/ pc' = "login_except"
    /\ UNCHANGED << batchVars, browserVars, loginVars >>
    /\ UNCHANGED << notifications, env, pubVars, endVars >>

\* The answers given so far to the selectors of `role`.
History(role) == IF page.role = role THEN page.answers ELSE << >>

\* The selectors among those tried that the page did not answer "absent" to.
Matches(answers) ==
    Cardinality({ j \in DOMAIN answers : answers[j] # "absent" })

\* One iteration of `for selector in selectors` that ends without `break`
\* although the fill/click returned, so that the loop goes on to the later
\* selectors and acts on every one that answers.
Probe_NoBreak(role, selectors, act, next) ==
    LET hist == History(role)
        j == Len(hist) + 1
    IN  /\ j <= Len(selectors)
        /\ \E a \in Answers :
            LET nowUsed == IF a = "ok" THEN j
                           ELSE IF page.role = role THEN page.used ELSE 0
            IN  /\ a # "absent" => Matches(hist) < MaxMatches
                /\ page' = [ role |-> role, answers |-> Append(hist, a),
                             used |-> nowUsed ]
                /\ actions' = IF a = "ok" /\ act \notin
                                    { actions[m] : m \in DOMAIN actions }
                              THEN Append(actions, act) ELSE actions
                /\ pc' = IF j = Len(selectors) /\ nowUsed # 0
                         THEN next ELSE pc

\* lines 106-115, 124-133, 142-151: one iteration of `for selector in
\* selectors`, for the next selector of the list.  When its element is
\* found and the fill/click returns, the selector is used and the loop is
\* left (`break`); when it finds nothing, or its query or its fill/click
\* raises (`except Exception: continue`), the loop goes on.
Probe(role, selectors, act, next) ==
    LET hist == History(role)
        j == Len(hist) + 1
    IN  /\ j <= Len(selectors)
        /\ \E a \in Answers :
            /\ a # "absent" => Matches(hist) < MaxMatches
            /\ IF a = "ok"
               THEN /\ page' = [ role |-> role, answers |-> Append(hist, a),
                                 used |-> j ]
                    /\ actions' = Append(actions, act)
                    /\ pc' = next
               ELSE /\ page' = [ role |-> role, answers |-> Append(hist, a),
                                 used |-> 0 ]
                    /\ actions' = actions
                    /\ pc' = pc

\* Every selector of `role` was tried and none was used.
Exhausted(role, selectors) ==
    /\ Len(History(role)) = Len(selectors)
    /\ page.used = 0

\* lines 104-115: try the next username selector
FillUsername ==
    /\ pc = "login_username"
    /\ Probe("username", username_selectors, "fill_username",
             "login_password")
    /\ UNCHANGED << batchVars, browserVars, session_cookie >>
    /\ UNCHANGED << notifications, env, pubVars, endVars >>

\* lines 117-120: no username field: close the context and return None
UsernameNotFound ==
    /\ pc = "login_username"
    /\ Exhausted("username", username_selectors)
    /\ pc' = "login_close_none"
    /\ UNCHANGED << batchVars, browserVars, loginVars >>
    /\ UNCHANGED << notifications, env, pubVars, endVars >>

\* lines 122-133: try the next password selector
FillPassword ==
    /\ pc = "login_password"
    /\ Probe("password", password_selectors, "fill_password",
             "login_submit")
    /\ UNCHANGED << batchVars, browserVars, session_cookie >>
    /\ UNCHANGED << notifications, env, pubVars, endVars >>

\* lines 135-138: no password field: close the context and return None
PasswordNotFound ==
    /\ pc = "login_password"
    /\ Exhausted("password", password_selectors)
    /\ pc' = "login_close_none"
    /\ UNCHANGED << batchVars, browserVars, loginVars >>
    /\ UNCHANGED << notifications, env, pubVars, endVars >>

\* lines 140-151: try the next submit selector
Submit ==
    /\ pc = "login_submit"
    /\ Probe("submit", submit_selectors, "click", "login_wait")
    /\ UNCHANGED << batchVars, browserVars, session_cookie >>
    /\ UNCHANGED << notifications, env, pubVars, endVars >>

\* PressEnter that presses Enter whether or not a button was clicked.
PressEnter_Always ==
    /\ pc \in {"login_submit", "login_wait"}
    /\ "enter" \notin { actions[m] : m \in DOMAIN actions }
    /\ pc = "login_submit" => Exhausted("submit", submit_selectors)
    /\ actions' = Append(actions, "enter")
    /\ pc' = "login_wait"
    /\ UNCHANGED << batchVars, browserVars, page, session_cookie >>
    /\ UNCHANGED << notifications, env, pubVars, endVars >>

\* lines 153-156: no button was clicked: press Enter, which may raise
PressEnter ==
    /\ pc = "login_submit"
    /\ Exhausted("submit", submit_selectors)
    /\ \/ /\ actions' = Append(actions, "enter")
          /\ pc' = "login_wait"
       \/ /\ actions' = actions
          /\ pc' = "login_except"
    /\ UNCHANGED << batchVars, browserVars, page, session_cookie >>
    /\ UNCHANGED << notifications, env, pubVars, endVars >>

\* lines 158-170: wait_for_url, and wait_for_timeout when it raises
WaitLogin ==
    /\ pc = "login_wait"
    /\ \/ pc' = "login_cookies"
       \/ pc' = "login_except"
    /\ page' = NoPage
    /\ UNCHANGED << batchVars, browserVars, session_cookie, actions >>
    /\ UNCHANGED << notifications, env, pubVars, endVars >>

\* lines 175-179: the value of the first cookie named 'session', else None
RECURSIVE FindSession(_)
FindSession(cookies) ==
    IF cookies = << >> THEN None
    ELSE IF Head(cookies).name = "session" THEN Head(cookies).value
    ELSE FindSession(Tail(cookies))

\* lines 172-179: cookies = await page.context.cookies()
ExtractCookies ==
    /\ pc = "login_cookies"
    /\ \/ /\ \E cookies \in CookieJars :
                session_cookie' = FindSession(cookies)
          /\ actions' = Append(actions, "cookies")
          /\ pc' = "login_session"
       \/ /\ pc' = "login_except"
          /\ UNCHANGED << session_cookie, actions >>
    /\ UNCHANGED << batchVars, browserVars, page >>
    /\ UNCHANGED << notifications, env, pubVars, endVars >>

\* lines 181-201: if session_cookie: ... else: (probe the error selectors) ...
CheckSession ==
    /\ pc = "login_session"
    /\ pc' = IF Truthy(session_cookie)
             THEN "login_close_session" ELSE "login_close_none"
    /\ UNCHANGED << batchVars, browserVars, loginVars >>
    /\ UNCHANGED << notifications, env, pubVars, endVars >>

\* lines 183-184: await context.close(); return session_cookie
CloseReturnSession ==
    /\ pc = "login_close_session"
    /\ \/ /\ ContextCloseOk
          /\ LoginReturn(session_cookie)
       \/ /\ ContextCloseRaises
          /\ pc' = "login_except"
          /\ UNCHANGED << new_session, loginResult, driverRunning >>
    /\ UNCHANGED << credentials, i, new_accounts, failed_accounts,
                    success_count, sleeps >>
    /\ UNCHANGED << loginVars, notifications, env, pubVars, endVars >>

\* lines 119-120, 137-138, 200-201: await context.close(); return None
CloseReturnNone ==
    /\ pc = "login_close_none"
    /\ \/ /\ ContextCloseOk
          /\ LoginReturn(None)
       \/ /\ ContextCloseRaises
          /\ pc' = "login_except"
          /\ UNCHANGED << new_session, loginResult, driverRunning >>
    /\ page' = NoPage
    /\ UNCHANGED << credentials, i, new_accounts, failed_accounts,
                    success_count, sleeps >>
    /\ UNCHANGED << session_cookie, actions >>
    /\ UNCHANGED << notifications, env, pubVars, endVars >>

\* lines 203-206: except Exception: await context.close(); return None
ExceptHandler ==
    /\ pc = "login_except"
    /\ \/ /\ ContextCloseOk
          /\ LoginReturn(None)
       \/ /\ ContextCloseRaises
          /\ LoginRaise
    /\ page' = NoPage
    /\ UNCHANGED << credentials, i, new_accounts, failed_accounts,
                    success_count, sleeps >>
    /\ UNCHANGED << session_cookie, actions >>
    /\ UNCHANGED << notifications, env, pubVars, endVars >>

\* ------------------------------------------------ refresh_all_sessions
\* lines 219-226: load the configuration; an empty list returns False
LoadConfig ==
    /\ pc = "start"
    /\ \E creds \in CredentialLists :
        /\ credentials' = creds
        /\ loginResult' = [ n \in 1..Len(creds) |-> "notcalled" ]
        /\ pc' = IF Len(creds) = 0 THEN "sys_exit" ELSE "for"
    /\ success' = FALSE
    /\ UNCHANGED << i, new_accounts, failed_accounts, success_count,
                    new_session, sleeps, openContexts, driverRunning >>
    /\ UNCHANGED << loginVars, notifications, env, pubVars, outcome,
                    exitCode >>

\* line 233: the loop is over once every credential was enumerated
ForDone ==
    /\ pc = "for"
    /\ i = Len(credentials)
    /\ pc' = "stats"
    /\ UNCHANGED << batchVars, browserVars, loginVars >>
    /\ UNCHANGED << notifications, env, pubVars, endVars >>

\* ProviderMissing with `break` for `continue`: the loop ends at the first
\* credential without a provider.
ProviderMissing_Break ==
    /\ pc = "for"
    /\ i < Len(credentials)
    /\ get_provider(credentials[i + 1].provider) = None
    /\ failed_accounts' =
           Append(failed_accounts, get_display_name(credentials[i + 1], i))
    /\ i' = i + 1
    /\ pc' = "stats"
    /\ UNCHANGED << credentials, new_accounts, success_count, new_session,
                    sleeps >>
    /\ UNCHANGED << browserVars, loginVars >>
    /\ UNCHANGED << notifications, env, pubVars, endVars >>

\* lines 233-241: provider not found: a failed account, and `continue`
ProviderMissing ==
    /\ pc = "for"
    /\ i < Len(credentials)
    /\ get_provider(credentials[i + 1].provider) = None
    /\ failed_accounts' =
           Append(failed_accounts, get_display_name(credentials[i + 1], i))
    /\ i' = i + 1
    /\ pc' = "for"
    /\ UNCHANGED << credentials, new_accounts, success_count, new_session,
                    sleeps >>
    /\ UNCHANGED << browserVars, loginVars >>
    /\ UNCHANGED << notifications, env, pubVars, endVars >>

\* lines 233-244: provider found: call auto_login_and_get_session
StartLogin ==
    /\ pc = "for"
    /\ i < Len(credentials)
    /\ get_provider(credentials[i + 1].provider) # None
    /\ page' = NoPage
    /\ session_cookie' = None
    /\ actions' = << >>
    /\ pc' = "login_playwright"
    /\ UNCHANGED << batchVars, browserVars >>
    /\ UNCHANGED << notifications, env, pubVars, endVars >>

\* HandleResult without its `else`: the label is appended to failed_accounts
\* for a refreshed account too.
HandleResult_NoElse ==
    /\ pc = "result"
    /\ IF Truthy(new_session)
       THEN /\ new_accounts' =
                   Append(new_accounts,
                          to_account_dict(credentials[i + 1], new_session))
            /\ success_count' = success_count + 1
       ELSE UNCHANGED << new_accounts, success_count >>
    /\ failed_accounts' =
           Append(failed_accounts, get_display_name(credentials[i + 1], i))
    /\ pc' = "pace"
    /\ UNCHANGED << credentials, i, new_session, sleeps >>
    /\ UNCHANGED << browserVars, loginVars >>
    /\ UNCHANGED << notifications, env, pubVars, endVars >>

\* HandleResult keeping a failed account in new_accounts, with the empty
\* session it came back with.
HandleResult_KeepsFailed ==
    /\ pc = "result"
    /\ IF Truthy(new_session)
       THEN /\ new_accounts' =
                   Append(new_accounts,
                          to_account_dict(credentials[i + 1], new_session))
            /\ success_count' = success_count + 1
            /\ UNCHANGED failed_accounts
       ELSE /\ new_accounts' =
                   Append(new_accounts,
                          to_account_dict(credentials[i + 1], ""))
            /\ failed_accounts' =
                   Append(failed_accounts,
                          get_display_name(credentials[i + 1], i))
            /\ UNCHANGED success_count
    /\ pc' = "pace"
    /\ UNCHANGED << credentials, i, new_session, sleeps >>
    /\ UNCHANGED << browserVars, loginVars >>
    /\ UNCHANGED << notifications, env, pubVars, endVars >>

\* HandleResult publishing after every refreshed account: the secret is
\* replaced while the loop is still running.
HandleResult_PublishesEach ==
    /\ pc = "result"
    /\ IF Truthy(new_session)
       THEN /\ new_accounts' =
                   Append(new_accounts,
                          to_account_dict(credentials[i + 1], new_session))
            /\ success_count' = success_count + 1
            /\ putCalls' = putCalls + 1
            /\ remoteSecret' =
                   [ box |-> remoteKey.key, eph |-> "e1",
                     msg |-> << new_session >> ]
            /\ UNCHANGED failed_accounts
       ELSE /\ failed_accounts' =
                   Append(failed_accounts,
                          get_display_name(credentials[i + 1], i))
            /\ UNCHANGED << new_accounts, success_count, putCalls,
                            remoteSecret >>
    /\ pc' = "pace"
    /\ UNCHANGED << credentials, i, new_session, sleeps >>
    /\ UNCHANGED << browserVars, loginVars >>
    /\ UNCHANGED << notifications, env, accounts_json, pubCalls, getCalls,
                    encCalls, key_info, encrypted_value, payload, getStatus,
                    putStatus, pubResult, remoteKey, thisCall, endVars >>

\* lines 246-254: a session is a new account, anything else a failed one
HandleResult ==
    /\ pc = "result"
    /\ IF Truthy(new_session)
       THEN /\ new_accounts' =
                   Append(new_accounts,
                          to_account_dict(credentials[i + 1], new_session))
            /\ success_count' = success_count + 1
            /\ UNCHANGED failed_accounts
       ELSE /\ failed_accounts' =
                   Append(failed_accounts,
                          get_display_name(credentials[i + 1], i))
            /\ UNCHANGED << new_accounts, success_count >>
    /\ pc' = "pace"
    /\ UNCHANGED << credentials, i, new_session, sleeps >>
    /\ UNCHANGED << browserVars, loginVars >>
    /\ UNCHANGED << notifications, env, pubVars, endVars >>

\* lines 256-258: asyncio.sleep(2) unless this was the last credential
Pace ==
    /\ pc = "pace"
    /\ sleeps' = IF i < Len(credentials) - 1 THEN sleeps \cup {i} ELSE sleeps
    /\ i' = i + 1
    /\ pc' = "for"
    /\ UNCHANGED << credentials, new_accounts, failed_accounts,
                    success_count, new_session >>
    /\ UNCHANGED << browserVars, loginVars >>
    /\ UNCHANGED << notifications, env, pubVars, endVars >>


\* notify.push_message(title, body, msg_type='text'): the call is recorded with
\* the figures its body is formatted from.
push_message(title, failed) ==
    Append(notifications,
           [ title |-> title,
             success_count |-> success_count,
             total_count |-> Len(credentials),
             failed |-> failed ])

\* json.dumps(obj, ensure_ascii=False, separators=(',', ':')) of a list of
\* account dicts, as the sequence of its tokens.
Quote(str) == "\"" \o str \o "\""

JsonObject(d) ==
    << "{", Quote("provider"), ":", Quote(d.provider), ",",
       Quote("username"), ":", Quote(d.username), ",",
       Quote("password"), ":", Quote(d.password), ",",
       Quote("session"), ":", Quote(d.session), "}" >>

RECURSIVE JsonItems(_)
JsonItems(list) ==
    IF list = << >> THEN << >>
    ELSE IF Len(list) = 1 THEN JsonObject(list[1])
    ELSE JsonObject(Head(list)) \o << "," >> \o JsonItems(Tail(list))

json_dumps(list) == << "[" >> \o JsonItems(list) \o << "]" >>

\* lines 260-272: no success: notify the total failure and return False
AllFailed ==
    /\ pc = "stats"
    /\ success_count = 0
    /\ notifications' =
           push_message("AnyRouter Session Refresh Failed", failed_accounts)
    /\ success' = FALSE
    /\ pc' = "sys_exit"
    /\ UNCHANGED << batchVars, browserVars, loginVars >>
    /\ UNCHANGED << env, pubVars, outcome, exitCode >>

\* CallPublisher without the `success_count == 0` return before it.
CallPublisher_Unguarded ==
    /\ pc = "stats"
    /\ accounts_json' = json_dumps(new_accounts)
    /\ pubCalls' = pubCalls + 1
    /\ thisCall' = NewCall(payload.key_id)
    /\ pc' = "publish_api"
    /\ UNCHANGED << batchVars, browserVars, loginVars >>
    /\ UNCHANGED << notifications, env, getCalls, encCalls, putCalls,
                    key_info, encrypted_value, payload, getStatus,
                    putStatus, pubResult, remoteSecret, remoteKey,
                    endVars >>

\* lines 274-282: serialise new_accounts and call update_anyrouter_accounts
CallPublisher ==
    /\ pc = "stats"
    /\ success_count # 0
    /\ accounts_json' = json_dumps(new_accounts)
    /\ pubCalls' = pubCalls + 1
    /\ thisCall' = NewCall(payload.key_id)
    /\ pc' = "publish_api"
    /\ UNCHANGED << batchVars, browserVars, loginVars >>
    /\ UNCHANGED << notifications, env, getCalls, encCalls, putCalls,
                    key_info, encrypted_value, payload, getStatus,
                    putStatus, pubResult, remoteSecret, remoteKey,
                    endVars >>

\* ------------------------------------------------------- github_api.py
\* lines 143-152: update_anyrouter_accounts(accounts_json) is entered, by a
\* caller that invokes it again after it returned; the locals are fresh.
Invoke ==
    /\ pc \in {"publish_idle", "publish_done"}
    /\ pubCalls < MaxPublishCalls
    /\ \E session \in SessionValues :
        accounts_json' =
            json_dumps(<< to_account_dict(Credential(1, "anyrouter"),
                                          session) >>)
    /\ pubCalls' = pubCalls + 1
    /\ key_info' = NoKeyInfo
    /\ encrypted_value' = NoBox
    /\ getStatus' = NoResponse
    /\ putStatus' = NoResponse
    /\ thisCall' = NewCall(payload.key_id)
    /\ pc' = "publish_api"
    /\ UNCHANGED << batchVars, browserVars, loginVars >>
    /\ UNCHANGED << notifications, env, getCalls, encCalls, putCalls,
                    payload, pubResult, remoteSecret, remoteKey, endVars >>

\* `return v` from update_anyrouter_accounts, also from its except clause.
PublishReturn(v) ==
    /\ pubResult' = v
    /\ pc' = "publish_done"

\* lines 153-154 and 17-20: GitHubAPI() raises ValueError without GH_PAT
NewGitHubAPI ==
    /\ pc = "publish_api"
    /\ IF env.GH_PAT
       THEN /\ pc' = "publish_repo"
            /\ UNCHANGED pubResult
       ELSE PublishReturn(FALSE)
    /\ UNCHANGED << batchVars, browserVars, loginVars >>
    /\ UNCHANGED << notifications, env, accounts_json, pubCalls, getCalls,
                    encCalls, putCalls, key_info, encrypted_value, payload,
                    getStatus, putStatus, remoteSecret, remoteKey,
                    thisCall, endVars >>

\* lines 44-61: (owner, repo) from GITHUB_REPOSITORY or REPO_OWNER/REPO_NAME
get_repo_info ==
    IF env.repo \in {"combined", "separate"} THEN "owner/repo" ELSE None

\* lines 155-164: no repository: return False; else update_environment_secret
ResolveRepo ==
    /\ pc = "publish_repo"
    /\ IF get_repo_info = None
       THEN PublishReturn(FALSE)
       ELSE /\ pc' = "publish_get_key"
            /\ UNCHANGED pubResult
    /\ UNCHANGED << batchVars, browserVars, loginVars >>
    /\ UNCHANGED << notifications, env, accounts_json, pubCalls, getCalls,
                    encCalls, putCalls, key_info, encrypted_value, payload,
                    getStatus, putStatus, remoteSecret, remoteKey,
                    thisCall, endVars >>

\* get_environment_public_key without the status check of line 80.
get_environment_public_key_AnyStatus(response) ==
    IF ~response.raised /\ response.wellFormed
    THEN response.body
    ELSE NoKeyInfo

\* lines 76-89: the key of a 200 response with a well-formed body, else None
get_environment_public_key(response) ==
    IF ~response.raised /\ response.status = HTTP_OK /\ response.wellFormed
    THEN response.body
    ELSE NoKeyInfo

\* The key the first call fetched, kept and used by every later call in
\* place of a GET of its own.
GetPublicKey_Cached ==
    /\ pc = "publish_get_key"
    /\ IF payload # NoPayload
       THEN /\ key_info' = [ key_id |-> payload.key_id,
                             key |-> payload.encrypted_value.box ]
            /\ pc' = "publish_encrypt"
            /\ UNCHANGED << getCalls, getStatus, thisCall, pubResult >>
       ELSE /\ getCalls' = getCalls + 1
            /\ \E raised \in BOOLEAN, status \in GetStatuses,
                  wellFormed \in BOOLEAN :
                LET info == get_environment_public_key(
                                [ raised |-> raised, status |-> status,
                                  body |-> remoteKey,
                                  wellFormed |-> wellFormed ])
                IN  /\ key_info' = info
                    /\ getStatus' = [ raised |-> raised,
                                      status |-> IF raised THEN 0
                                                 ELSE status ]
                    /\ thisCall' =
                           [ thisCall EXCEPT
                               !.gets = @ + 1,
                               !.served = IF ~raised /\ wellFormed
                                          THEN remoteKey ELSE NoKeyInfo ]
                    /\ IF info = NoKeyInfo
                       THEN PublishReturn(FALSE)
                       ELSE /\ pc' = "publish_encrypt"
                            /\ UNCHANGED pubResult
    /\ UNCHANGED << batchVars, browserVars, loginVars >>
    /\ UNCHANGED << notifications, env, accounts_json, pubCalls, encCalls,
                    putCalls, encrypted_value, payload, putStatus,
                    remoteSecret, remoteKey, endVars >>

\* lines 111-114 and 76-89: fetch the public key the store serves now;
\* return False without one
GetPublicKey ==
    /\ pc = "publish_get_key"
    /\ getCalls' = getCalls + 1
    /\ \E raised \in BOOLEAN, status \in GetStatuses, wellFormed \in BOOLEAN :
        LET info == get_environment_public_key(
                        [ raised |-> raised, status |-> status,
                          body |-> remoteKey, wellFormed |-> wellFormed ])
        IN  /\ key_info' = info
            /\ getStatus' = [ raised |-> raised,
                              status |-> IF raised THEN 0 ELSE status ]
            /\ thisCall' =
                   [ thisCall EXCEPT
                       !.gets = @ + 1,
                       !.served = IF ~raised /\ wellFormed
                                  THEN remoteKey ELSE NoKeyInfo ]
            /\ IF info = NoKeyInfo
               THEN PublishReturn(FALSE)
               ELSE /\ pc' = "publish_encrypt"
                    /\ UNCHANGED pubResult
    /\ UNCHANGED << batchVars, browserVars, loginVars >>
    /\ UNCHANGED << notifications, env, accounts_json, pubCalls, encCalls,
                    putCalls, encrypted_value, payload, putStatus,
                    remoteSecret, remoteKey, endVars >>

\* lines 29-42: a sealed box for the key, under a fresh ephemeral key pair
_encrypt_secret(public_key, secret_value, ephemeral) ==
    [ box |-> public_key, eph |-> ephemeral, msg |-> secret_value ]

\* line 117: encrypt; PublicKey() raising is caught at line 165
Encrypt ==
    /\ pc = "publish_encrypt"
    /\ encCalls' = encCalls + 1
    /\ thisCall' = [ thisCall EXCEPT !.encs = @ + 1 ]
    /\ IF key_info.key \in ValidKeys
       THEN /\ \E e \in Ephemerals :
                 encrypted_value' =
                     _encrypt_secret(key_info.key, accounts_json, e)
            /\ pc' = "publish_put"
            /\ UNCHANGED pubResult
       ELSE /\ PublishReturn(FALSE)
            /\ UNCHANGED encrypted_value
    /\ UNCHANGED << batchVars, browserVars, loginVars >>
    /\ UNCHANGED << notifications, env, accounts_json, pubCalls, getCalls,
                    putCalls, key_info, payload, getStatus, putStatus,
                    remoteSecret, remoteKey, endVars >>

\* PutSucceeded taking every 2xx status for a success.
PutSucceeded_Any2xx(response) ==
    ~response.raised /\ response.status \in 200..299

\* lines 131-140: True for 201 and 204, False for anything else
PutSucceeded(response) ==
    ~response.raised /\ response.status \in {HTTP_CREATED, HTTP_NO_CONTENT}

\* lines 119-140: PUT {encrypted_value, key_id}.  The store replaces the
\* secret when it answers 201 or 204; a request whose answer is lost to a
\* transport error may have been applied or not.
PutSecret ==
    /\ pc = "publish_put"
    /\ putCalls' = putCalls + 1
    /\ thisCall' = [ thisCall EXCEPT !.puts = @ + 1 ]
    /\ payload' = [ encrypted_value |-> encrypted_value,
                    key_id |-> key_info.key_id ]
    /\ \E raised \in BOOLEAN, status \in PutStatuses, applied \in BOOLEAN :
        LET response == [ raised |-> raised,
                          status |-> IF raised THEN 0 ELSE status ]
            stored == IF raised THEN applied
                      ELSE status \in {HTTP_CREATED, HTTP_NO_CONTENT}
        IN  /\ putStatus' = response
            /\ remoteSecret' = IF stored THEN encrypted_value
                               ELSE remoteSecret
            /\ PublishReturn(PutSucceeded(response))
    /\ UNCHANGED << batchVars, browserVars, loginVars >>
    /\ UNCHANGED << notifications, env, accounts_json, pubCalls, getCalls,
                    encCalls, key_info, encrypted_value, getStatus,
                    remoteKey, endVars >>

\* The secret store replaces the public key of the environment; the code
\* can see it only through a GET, so only rotations around a call matter.
RotateKey ==
    /\ pc \in { "publish_api", "publish_repo", "publish_get_key",
                "publish_encrypt", "publish_put", "publish_done" }
    /\ \E k \in RemoteKeys \ {remoteKey} : remoteKey' = k
    /\ UNCHANGED << pc, batchVars, browserVars, loginVars >>
    /\ UNCHANGED << notifications, env, accounts_json, pubCalls, getCalls,
                    encCalls, putCalls, key_info, encrypted_value, payload,
                    getStatus, putStatus, pubResult, remoteSecret,
                    thisCall, endVars >>

\* ------------------------------------- refresh_all_sessions, the ending
\* NotifyPublished returning True from its `else` branch as well.
NotifyPublished_AlwaysTrue ==
    /\ pc = "publish_done"
    /\ notifications' =
           IF pubResult
           THEN IF failed_accounts # << >>
                THEN push_message(
                         "AnyRouter Session Refresh Partial Success",
                         failed_accounts)
                ELSE push_message("AnyRouter Session Refresh Success", << >>)
           ELSE push_message("AnyRouter Session Refresh Failed", << >>)
    /\ success' = TRUE
    /\ pc' = "sys_exit"
    /\ UNCHANGED << batchVars, browserVars, loginVars >>
    /\ UNCHANGED << env, pubVars, outcome, exitCode >>

\* lines 282-312: notify what the publication made of the run and return
NotifyPublished ==
    /\ pc = "publish_done"
    /\ IF pubResult
       THEN /\ notifications' =
                   IF failed_accounts # << >>
                   THEN push_message(
                            "AnyRouter Session Refresh Partial Success",
                            failed_accounts)
                   ELSE push_message("AnyRouter Session Refresh Success",
                                     << >>)
            /\ success' = TRUE
       ELSE /\ notifications' =
                   push_message("AnyRouter Session Refresh Failed", << >>)
            /\ success' = FALSE
    /\ pc' = "sys_exit"
    /\ UNCHANGED << batchVars, browserVars, loginVars >>
    /\ UNCHANGED << env, pubVars, outcome, exitCode >>

\* ------------------------------------------------------------ run_main
\* lines 318-319: sys.exit(0 if success else 1)
SysExit ==
    /\ pc = "sys_exit"
    /\ exitCode' = IF success THEN 0 ELSE 1
    /\ outcome' = "returned"
    /\ pc' = "exited"
    /\ UNCHANGED << batchVars, browserVars, loginVars >>
    /\ UNCHANGED << notifications, env, pubVars, success >>

\* lines 323-325: except Exception: sys.exit(1)
ExitOnException ==
    /\ pc = "raised"
    /\ exitCode' = 1
    /\ outcome' = "exception"
    /\ pc' = "exited"
    /\ UNCHANGED << batchVars, browserVars, loginVars >>
    /\ UNCHANGED << notifications, env, pubVars, success >>

\* lines 320-322: except KeyboardInterrupt: sys.exit(1), wherever the run is
ExitOnInterrupt ==
    /\ pc # "exited"
    /\ exitCode' = 1
    /\ outcome' = "interrupted"
    /\ driverRunning' = FALSE
    /\ DriverStopsWithContext
    /\ pc' = "exited"
    /\ UNCHANGED << batchVars, loginResult, loginVars >>
    /\ UNCHANGED << notifications, env, pubVars, success >>

\* ------------------------------------------------------ specifications
Login ==
    \/ EnterPlaywright
    \/ LaunchContext
    \/ NewPage
    \/ Goto
    \/ WaitReady
    \/ FillUsername
    \/ UsernameNotFound
    \/ FillPassword
    \/ PasswordNotFound
    \/ Submit
    \/ PressEnter
    \/ WaitLogin
    \/ ExtractCookies
    \/ CheckSession
    \/ CloseReturnSession
    \/ CloseReturnNone
    \/ ExceptHandler

Batch ==
    \/ LoadConfig
    \/ ForDone
    \/ ProviderMissing
    \/ StartLogin
    \/ HandleResult
    \/ Pace
    \/ AllFailed
    \/ CallPublisher
    \/ NotifyPublished

Publish ==
    \/ NewGitHubAPI
    \/ ResolveRepo
    \/ GetPublicKey
    \/ Encrypt
    \/ PutSecret
    \/ RotateKey

Next ==
    \/ Login
    \/ Batch
    \/ Publish
    \/ SysExit
    \/ ExitOnException

\* A run nobody interrupts.
Spec == Init /\ [][Next]_vars

\* A run that a KeyboardInterrupt may end at any point.
NextInt == Next \/ ExitOnInterrupt

SpecInt == Init /\ [][NextInt]_vars

\* A process that calls update_anyrouter_accounts, up to MaxPublishCalls
\* times in a row, against a store whose key may rotate.
InitPub ==
    /\ pc = "publish_idle"
    /\ credentials = << >>
    /\ i = 0
    /\ new_accounts = << >>
    /\ failed_accounts = << >>
    /\ success_count = 0
    /\ new_session = None
    /\ sleeps = {}
    /\ page = NoPage
    /\ session_cookie = None
    /\ openContexts = {}
    /\ driverRunning = FALSE
    /\ loginResult = << >>
    /\ actions = << >>
    /\ notifications = << >>
    /\ env \in Environments
    /\ accounts_json = << >>
    /\ pubCalls = 0
    /\ getCalls = 0
    /\ encCalls = 0
    /\ putCalls = 0
    /\ key_info = NoKeyInfo
    /\ encrypted_value = NoBox
    /\ payload = NoPayload
    /\ getStatus = NoResponse
    /\ putStatus = NoResponse
    /\ pubResult = FALSE
    /\ remoteSecret = OldSecret
    /\ remoteKey = [ key_id |-> "id1", key |-> "k1" ]
    /\ thisCall = NewCall("")
    /\ success = FALSE
    /\ outcome = "running"
    /\ exitCode = -1

NextPub ==
    \/ Invoke
    \/ Publish

SpecPub == InitPub /\ [][NextPub]_vars


\* ------------------------------------------------------------- claims
NumCreds == Len(credentials)

\* The credentials (1-based) whose login returned a session.
Succeeded ==
    { n \in 1..NumCreds :
        loginResult[n] \notin {"notcalled", "raised", None, ""} }

NumSucceeded == Cardinality(Succeeded)

Label(n) == get_display_name(credentials[n], n - 1)

InNewAccounts(n) ==
    \E m \in DOMAIN new_accounts :
        new_accounts[m].username = credentials[n].username

InFailedAccounts(n) ==
    \E m \in DOMAIN failed_accounts : failed_accounts[m] = Label(n)

\* The call of auto_login_and_get_session is in progress.
InLogin ==
    pc \in { "login_playwright", "login_launch", "login_new_page",
             "login_goto", "login_ready", "login_username",
             "login_password", "login_submit", "login_wait",
             "login_cookies", "login_session", "login_close_session",
             "login_close_none", "login_except" }

\* update_anyrouter_accounts was called and has returned.
PublishReturned ==
    pubCalls > 0 /\ pc \in {"publish_done", "sys_exit", "exited"}
        /\ outcome # "interrupted"

\* C1: at the head of the loop, with i credentials processed, the two
\* accumulators hold i entries together; when the loop is over they hold N,
\* new_accounts one per login that returned a session and failed_accounts
\* one per other credential, and every credential is in exactly one of them.
C1_Accumulators ==
    /\ pc = "for" => Len(new_accounts) + Len(failed_accounts) = i
    /\ pc = "stats" =>
        /\ Len(new_accounts) + Len(failed_accounts) = NumCreds
        /\ Len(new_accounts) = NumSucceeded
        /\ Len(failed_accounts) = NumCreds - NumSucceeded
        /\ \A n \in 1..NumCreds :
            /\ InNewAccounts(n) <=> n \in Succeeded
            /\ InFailedAccounts(n) <=> n \notin Succeeded

\* The loop is over with one refreshed and one failed account.
C1_Witness ==
    /\ pc = "stats"
    /\ NumCreds = 2
    /\ Len(new_accounts) = 1
    /\ Len(failed_accounts) = 1

\* C2: while no login has returned a session the publisher is not called
\* and no request is sent to the secret store, and the run ends with exit
\* status 1.
C2_NoSuccessNoPublish ==
    NumSucceeded = 0 =>
        /\ pubCalls = 0 /\ getCalls = 0 /\ putCalls = 0
        /\ pc = "exited" => exitCode = 1

\* A run of two accounts, both processed and both failed, has ended.
C2_Witness ==
    /\ pc = "exited"
    /\ outcome = "returned"
    /\ NumCreds = 2
    /\ Len(failed_accounts) = 2
    /\ NumSucceeded = 0

\* C3: a run in which a login returned a session calls the publisher
\* exactly once, after the login of the last credential, and no run sends
\* more than one PUT.
C3_PublishedExactlyOnce ==
    /\ pc = "exited" /\ NumSucceeded >= 1 => pubCalls = 1
    /\ pubCalls >= 1 =>
        \A n \in 1..NumCreds : loginResult[n] = "notcalled" =>
            get_provider(credentials[n].provider) = None
    /\ pubCalls <= 1
    /\ putCalls <= 1

\* C4: the exit status is 0 exactly when the run returned with at least one
\* account refreshed and the PUT of the secret answered 201 or 204; it is 1
\* for the empty credential list, no success, a failed publish, an
\* interruption and an exception.
C4_ExitStatus ==
    pc = "exited" =>
        /\ exitCode \in {0, 1}
        /\ exitCode = 0 <=>
            /\ outcome = "returned"
            /\ NumSucceeded >= 1
            /\ putCalls = 1
            /\ ~putStatus.raised
            /\ putStatus.status \in {201, 204}
        /\ outcome \in {"interrupted", "exception"} => exitCode = 1
        /\ NumCreds = 0 => exitCode = 1

\* A run ended with exit status 0 although one account failed.
C4_Witness ==
    /\ pc = "exited"
    /\ exitCode = 0
    /\ failed_accounts # << >>

\* C5: every run that ends has called notify.push_message exactly once,
\* with the title of its outcome: total failure without a success, partial
\* success naming the failed accounts, full success when all succeeded.
C5_NotifiedOncePerRun ==
    pc = "exited" =>
        /\ Len(notifications) = 1
        /\ NumSucceeded = 0 =>
            notifications[1].title = "AnyRouter Session Refresh Failed"
        /\ NumSucceeded = NumCreds /\ pubResult =>
            notifications[1].title = "AnyRouter Session Refresh Success"
        /\ 0 < NumSucceeded /\ NumSucceeded < NumCreds /\ pubResult =>
            /\ notifications[1].title =
                   "AnyRouter Session Refresh Partial Success"
            /\ notifications[1].failed = failed_accounts

\* The accounts the run should publish: the credentials from the n-th on
\* whose login returned a session, in order, each with that session.
RECURSIVE ExpectedAccounts(_)
ExpectedAccounts(n) ==
    IF n > NumCreds THEN << >>
    ELSE (IF n \in Succeeded
          THEN << to_account_dict(credentials[n], loginResult[n]) >>
          ELSE << >>) \o ExpectedAccounts(n + 1)

\* The number of objects of a serialised array.
ObjectCount(tokens) ==
    Cardinality({ m \in DOMAIN tokens : tokens[m] = "{" })

\* C6: the plaintext handed to the publisher is the JSON array of the
\* accounts whose login returned a session, in credential order, each with
\* the fields of its credential and its own session; it has as many
\* elements as logins succeeded, names no failed account, and it alone is
\* what the encrypted payload and the replaced secret hold.
C6_PublishedAccounts ==
    pubCalls >= 1 =>
        /\ accounts_json = json_dumps(ExpectedAccounts(1))
        /\ ObjectCount(accounts_json) = NumSucceeded
        /\ \A n \in 1..NumCreds : \A m \in DOMAIN accounts_json :
            accounts_json[m] = Quote(credentials[n].username)
                => n \in Succeeded
        /\ putCalls >= 1 => payload.encrypted_value.msg = accounts_json
        /\ remoteSecret # OldSecret => remoteSecret.msg = accounts_json

\* Two accounts were refreshed with different sessions and the PUT was sent.
C6_Witness ==
    /\ putCalls = 1
    /\ NumCreds = 2
    /\ NumSucceeded = 2
    /\ loginResult[1] # loginResult[2]
    /\ remoteSecret # OldSecret

\* C7: when the GET of the public key raised or answered a status outside
\* 200..299, nothing is encrypted, no PUT is sent and the publish returns
\* False.
C7_NoKeyNoPut ==
    getCalls >= 1 /\ (getStatus.raised \/ getStatus.status \notin 200..299)
        => /\ encCalls = 0
           /\ putCalls = 0
           /\ PublishReturned => ~pubResult

\* The publish returned after a GET that answered 404.
C7_Witness ==
    /\ pc = "publish_done"
    /\ getCalls = 1
    /\ ~getStatus.raised
    /\ getStatus.status = 404

\* C8: a publish that returned gave True exactly when its PUT was sent and
\* answered 201 or 204, and False otherwise; no exception leaves
\* update_anyrouter_accounts, so none reaches run_main once it was called.
C8_PublishResult ==
    /\ PublishReturned =>
        (pubResult <=> /\ putCalls = 1
                       /\ ~putStatus.raised
                       /\ putStatus.status \in {201, 204})
    /\ pubCalls >= 1 => pc # "raised" /\ outcome # "exception"

\* The publish returned False after a PUT that answered 200.
C8_Witness ==
    /\ pc = "publish_done"
    /\ putCalls = 1
    /\ ~putStatus.raised
    /\ putStatus.status = 200
    /\ ~pubResult

\* C9: once a call of auto_login_and_get_session has returned or raised,
\* no browser context it opened is still open.
C9_ContextClosedOnExit ==
    ~InLogin => openContexts = {}

\* C10: no login attempt ends the batch: a run that ends has processed
\* every credential, and a credential whose attempt raised is a failed
\* account.
C10_FailureNeverAborts ==
    pc = "exited" =>
        /\ Len(new_accounts) + Len(failed_accounts) = NumCreds
        /\ \A n \in 1..NumCreds :
            loginResult[n] = "raised" => InFailedAccounts(n)


\* The selectors of the role the page is being scanned for.
SelectorsOf(role) ==
    CASE role = "username" -> username_selectors
      [] role = "password" -> password_selectors
      [] role = "submit" -> submit_selectors
      [] OTHER -> << >>

\* C13, as claimed: the selector used is the lowest-index selector of its
\* role that matches an element of the page; no later selector is used when
\* an earlier one matches.
C13_FirstMatchWins ==
    page.role # "none" /\ page.used # 0 =>
        \A j \in 1..(page.used - 1) :
            page.answers[j] \notin {"ok", "action_raises"}

\* C13, amended: per role the selectors are tried in list order; the one
\* used is the first whose element is found and whose fill/click returns,
\* and none is tried after it; a selector whose query or fill/click raises
\* is passed over like one that finds nothing; the role is given up (not
\* found, or Enter for the submit role) only after every selector was tried.
C13_FirstUsableSelector ==
    page.role # "none" =>
        /\ Len(page.answers) <= Len(SelectorsOf(page.role))
        /\ page.used # 0 =>
            /\ page.used = Len(page.answers)
            /\ page.answers[page.used] = "ok"
        /\ \A j \in DOMAIN page.answers :
            page.answers[j] = "ok" => j = page.used
        /\ pc = "login_password" /\ page.role = "username" => page.used # 0
        /\ pc = "login_submit" /\ page.role = "password" => page.used # 0
        /\ pc = "login_wait" /\ page.used = 0 =>
            Len(page.answers) = Len(submit_selectors)
        /\ pc = "login_close_none" =>
            /\ page.used = 0
            /\ Len(page.answers) = Len(SelectorsOf(page.role))

\* The password was filled by the second selector after the fill of the
\* element the first one found had raised.
C13_Witness ==
    /\ pc = "login_submit"
    /\ page.role = "password"
    /\ page.used = 2
    /\ page.answers = << "action_raises", "ok" >>

\* What one login attempt can have done to the page, in order.
AttemptLogs ==
    { << >>,
      << "fill_username" >>,
      << "fill_username", "fill_password" >>,
      << "fill_username", "fill_password", "click" >>,
      << "fill_username", "fill_password", "enter" >>,
      << "fill_username", "fill_password", "click", "cookies" >>,
      << "fill_username", "fill_password", "enter", "cookies" >> }

C11_NoTokenNoAutomation ==
    ~env.GH_PAT =>
        /\ ~InLogin
        /\ openContexts = {}
        /\ \A n \in DOMAIN loginResult : loginResult[n] = "notcalled"
        /\ getCalls = 0
        /\ putCalls = 0

\* C15, as claimed: a pacing delay follows the processing of every
\* credential but the last, whatever its outcome, and none follows the last:
\* at the head of the loop every index processed so far, other than N-1,
\* has had its delay, and index N-1 never has one.
C15_PacedBetweenAccounts ==
    /\ \A j \in sleeps : j < NumCreds - 1
    /\ pc = "for" =>
        \A j \in 0..(i - 1) : j < NumCreds - 1 => j \in sleeps

\* The credential the loop is at has no registered provider.
AtMissingProvider ==
    /\ pc = "for"
    /\ i < NumCreds
    /\ get_provider(credentials[i + 1].provider) = None

\* C16: a credential whose provider is not registered never has
\* auto_login_and_get_session called for it and no browser context is
\* launched for it; once the loop has passed it, its label is in
\* failed_accounts, once, and it is not in new_accounts; and the step that
\* handles it appends that label and moves the loop on to the next credential
\* (unless the run is interrupted there).
C16_MissingProvider ==
    /\ [](\A n \in 1..NumCreds :
            get_provider(credentials[n].provider) = None =>
                /\ loginResult[n] = "notcalled"
                /\ ~(InLogin /\ i + 1 = n)
                /\ (n - 1) \notin openContexts
                /\ i >= n =>
                    /\ Cardinality({ m \in DOMAIN failed_accounts :
                                       failed_accounts[m] = Label(n) }) = 1
                    /\ ~InNewAccounts(n))
    /\ [][AtMissingProvider =>
            \/ outcome' = "interrupted"
            \/ /\ pc' = "for"
               /\ i' = i + 1
               /\ failed_accounts' = Append(failed_accounts, Label(i + 1))
               /\ openContexts' = openContexts
               /\ loginResult' = loginResult]_vars

\* The first credential had no registered provider and the second was
\* logged in all the same.
C16_Witness ==
    /\ pc = "stats"
    /\ NumCreds = 2
    /\ get_provider(credentials[1].provider) = None
    /\ InFailedAccounts(1)
    /\ 2 \in Succeeded
    /\ InNewAccounts(2)

\* A session value that is neither None nor the empty string.
NonEmpty(v) == v \notin {None, ""}

\* C17: every account in new_accounts has a non-empty session; a login
\* that read the cookies and found no cookie named 'session', or found one
\* with an empty value, returns None, and its account is recorded in
\* failed_accounts and not in new_accounts.
C17_SucceededHaveSession ==
    /\ \A m \in DOMAIN new_accounts : NonEmpty(new_accounts[m].session)
    /\ pc = "login_close_session" => NonEmpty(session_cookie)
    /\ pc \in {"result", "pace"} /\ new_session # None =>
        NonEmpty(new_session)
    /\ pc \in {"result", "pace"} /\ "cookies" \in { actions[m] : m \in DOMAIN actions }
            /\ ~NonEmpty(session_cookie) =>
        new_session = None
    /\ pc = "pace" /\ ~NonEmpty(new_session) =>
        InFailedAccounts(i + 1) /\ ~InNewAccounts(i + 1)

\* The cookie named 'session' had an empty value and the account was
\* recorded as failed.
C17_Witness ==
    /\ pc = "pace"
    /\ session_cookie = ""
    /\ actions[Len(actions)] = "cookies"
    /\ InFailedAccounts(i + 1)
    /\ ~InNewAccounts(i + 1)

\* C20, as claimed: a login that read a non-empty 'session' cookie returns
\* exactly that value, whatever the teardown of the context does, and its
\* account is recorded as succeeded.
C20_ExtractedSessionKept ==
    /\ pc \in {"result", "raised", "pace"}
            /\ "cookies" \in { actions[m] : m \in DOMAIN actions }
            /\ NonEmpty(session_cookie) =>
        /\ pc # "raised"
        /\ new_session = session_cookie
    /\ pc = "pace" /\ "cookies" \in { actions[m] : m \in DOMAIN actions }
            /\ NonEmpty(session_cookie) =>
        InNewAccounts(i + 1)

\* C18: a publish call sends at most one GET and at most one PUT, the GET
\* before the encryption and the encryption before the PUT; the key it
\* encrypts under is the key its own GET was answered with, which is the
\* key the store serves at that moment; the key_id of the PUT body is the
\* key_id of that answer, and the value sent is the accounts sealed for
\* that key.
C18_FreshKeyPerCall ==
    /\ [](/\ thisCall.gets <= 1
          /\ thisCall.encs <= thisCall.gets
          /\ thisCall.puts <= thisCall.encs
          /\ getCalls <= pubCalls
          /\ putCalls <= getCalls
          /\ pc \in {"publish_api", "publish_repo", "publish_get_key"} =>
                thisCall.gets = 0
          /\ pc = "publish_encrypt" =>
                /\ thisCall.gets = 1 /\ thisCall.encs = 0
                /\ key_info = thisCall.served
          /\ pc = "publish_put" =>
                /\ thisCall.encs = 1 /\ thisCall.puts = 0
                /\ encrypted_value.box = thisCall.served.key
          /\ thisCall.puts = 1 =>
                /\ payload.key_id = thisCall.served.key_id
                /\ payload.encrypted_value.box = thisCall.served.key
                /\ payload.encrypted_value.msg = accounts_json)
    /\ [][pc = "publish_get_key" /\ pc' = "publish_encrypt" =>
            key_info' = remoteKey /\ thisCall'.served = remoteKey]_vars

\* The key rotated between two calls: the first PUT carried id1, the second
\* carries id2 and its value is sealed for k2.
C18_Witness ==
    /\ pubCalls = 2
    /\ thisCall.prev = "id1"
    /\ thisCall.puts = 1
    /\ payload.key_id = "id2"
    /\ remoteSecret.box = "k2"
    /\ pubResult

\* C19, as claimed: whenever the run was interrupted, the secret store
\* holds the value it held before the run.
C19_InterruptedLeavesSecret ==
    outcome = "interrupted" => remoteSecret = OldSecret

\* The loop over the credentials has not ended.
LoopRunning ==
    \/ pc = "for" /\ i < NumCreds
    \/ InLogin
    \/ pc \in {"result", "pace", "raised"}

\* C19, amended: the secret store is written by nothing but the PUT of the
\* publisher, which is sent after the loop over the credentials has ended:
\* a run interrupted before its PUT is sent, in particular during a login
\* or between two accounts, leaves the stored value as it was before the run.
C19_InterruptedBeforePut ==
    /\ putCalls = 0 => remoteSecret = OldSecret
    /\ LoopRunning => putCalls = 0
    /\ outcome = "interrupted" /\ i < NumCreds => remoteSecret = OldSecret
    /\ outcome = "interrupted" /\ thisCall.puts = 0 =>
        remoteSecret = OldSecret

\* The run was interrupted inside the publisher, after the encryption and
\* before the PUT.
C19_Witness ==
    /\ outcome = "interrupted"
    /\ success_count >= 1
    /\ thisCall.encs = 1
    /\ putCalls = 0
    /\ remoteSecret = OldSecret

=============================================================================
